---- MODULE Spec2Model ----
(***************************************************************************)
(* Runner<Nonrigid>::run of cpd (include/cpd/runner.hpp and the Nonrigid   *)
(* transform), as a state machine.                                         *)
(*                                                                         *)
(* Numbers.  A point cloud is one point in one dimension, held as an       *)
(* integer, so the matrices W and G of Nonrigid are 1x1.  sigma2 is held   *)
(* in units of 10 * machine epsilon (coordinates in the root of that       *)
(* unit), the tolerance in units of 1e-5, the outlier weight in tenths.    *)
(* The relative change of L is a quotient and is held as numerator and     *)
(* denominator, or as NaN or +Inf when the divisor is zero, as IEEE        *)
(* doubles give.                                                           *)
(*                                                                         *)
(* Kernels.  The values computed by Comparer::compute and by the linear    *)
(* solve and the variance of Nonrigid::compute are not decided here: each  *)
(* is a function of its arguments whose value is chosen when the arguments *)
(* are first seen and kept in memoL / memoM, so the same arguments give    *)
(* the same value again.                                                   *)
(***************************************************************************)
EXTENDS Integers, Sequences, FiniteSets, TLC

VARIABLES
    \* Runner's configuration fields (runner.hpp 195-203)
    m_comparer, m_correspondence, m_max_iterations, m_normalize,
    m_outliers, m_sigma2, m_tolerance,
    \* Nonrigid's state, Runner::m_transform
    m_g, m_w,
    \* Runner::run: position, arguments and locals
    pc, fixed, moving, normalization, fixed_ptr, moving_ptr,
    iter, ntol, l, probabilities, result,
    \* the values the numeric kernels have shown
    memoL, memoM,
    \* history: the steps of this run, the engine calls of this run, the
    \* configuration at run entry, the last M-step's output, the previous run
    log, calls, cfg0, last_m, prev

config == <<m_comparer, m_correspondence, m_max_iterations, m_normalize,
            m_outliers, m_sigma2, m_tolerance>>
transform == <<m_g, m_w>>
locals == <<fixed, moving, normalization, fixed_ptr, moving_ptr,
            iter, ntol, l, probabilities, result>>
memo == <<memoL, memoM>>
history == <<log, calls, cfg0, last_m, prev>>
vars == <<config, transform, pc, locals, memo, history>>

----------------------------------------------------------------------------
\* Bounds of the model

\* the largest iteration cap a modelled run is started with
MaxIterations == 2
\* the number of configuration fields set away from their defaults
MaxChanged == 3
\* the values of the log-likelihood proxy L an engine returns
LValues == {-1, 0, 1}
\* the values of the displacement weight W the linear solve returns
WValues == {0, 1}
\* the variances the M-step returns: at the floor, above it
MStepSigma2 == {1, 2}
\* the initial variances set, besides the default 0 (compute it): at the
\* floor, above it
Sigma2Values == {1, 2}
\* the input clouds, <<fixed, moving>>
Clouds == {<<0, 3>>, <<3, 0>>}
\* the tolerances set, besides the default 1e-5: -1e-5 (malformed), 1.0
Tolerances == {-1, 100000}
\* the outlier weights set, besides the default 0.1: 1.0 (out of range)
OutlierWeights == {10}
\* the engines Comparer::from_name knows
Comparers == {"direct", "fgt"}

----------------------------------------------------------------------------
\* Program constants

DEFAULT_MAX_ITERATIONS == 150
DEFAULT_NORMALIZE == TRUE
\* 0.1, in tenths
DEFAULT_OUTLIERS == 1
\* 1e-5, in units of 1e-5
DEFAULT_TOLERANCE == 1
DEFAULT_SIGMA2 == 0
DEFAULT_CORRESPONDENCE == FALSE
\* 10 * std::numeric_limits<double>::epsilon(), in the unit of sigma2
SigmaFloor == 1
\* Nonrigid's regularization weight lambda
m_lambda == 2

----------------------------------------------------------------------------
\* Arithmetic helpers

\* 1.0 in the unit of the tolerance, 1e-5
TolScale == 100000

Abs(x) == IF x < 0 THEN -x ELSE x

RECURSIVE IsqrtFrom(_, _)
IsqrtFrom(n, r) == IF (r + 1) * (r + 1) > n THEN r ELSE IsqrtFrom(n, r + 1)
Isqrt(n) == IsqrtFrom(n, 0)

\* a double that is the quotient n / d in units of 1e-5, NaN or +Inf
Num(n, d) == [kind |-> "num", num |-> n, den |-> d]
NaN == [kind |-> "nan", num |-> 0, den |-> 1]
Inf == [kind |-> "inf", num |-> 1, den |-> 1]

\* std::abs(a / b) for doubles a, b: 0/0 is NaN, x/0 is +-Inf
AbsDiv(a, b) ==
    IF b = 0 THEN (IF a = 0 THEN NaN ELSE Inf)
    ELSE Num(Abs(a) * TolScale, Abs(b))

\* q > tol for a double q and a tolerance in units of 1e-5; false for NaN
GreaterThanTol(q, tol) ==
    CASE q.kind = "nan" -> FALSE
      [] q.kind = "inf" -> TRUE
      [] OTHER -> q.num > tol * q.den

----------------------------------------------------------------------------
\* Collaborators of Runner::run whose code is outside this file

\* cpd::normalize: centre both clouds on the fixed cloud's mean and divide by
\* the root of the mean squared norm of the centred points of both clouds,
\* floored at 1
Normalize(f, m) ==
    LET mean == f
        cf == f - mean
        cm == m - mean
        root == Isqrt((cf * cf + cm * cm) \div 2)
        scale == IF root < 1 THEN 1 ELSE root
    IN  [fixed_mean |-> mean, scale |-> scale,
         fixed |-> cf \div scale, moving |-> cm \div scale]

\* a default-constructed Normalization (no normalization done)
NoNormalization == [fixed_mean |-> 0, scale |-> 1, fixed |-> 0, moving |-> 0]

\* cpd::default_sigma2: the sum of squared pairwise distances over D * N * M
DefaultSigma2(f, m) == (f - m) * (f - m)

\* cpd::affinity(moving, moving, beta): the Gaussian kernel of the one
\* moving point with itself
Affinity(x, y) == IF x = y THEN 1 ELSE 0

\* the arguments of one Comparer::compute call
ComputeArgs(engine, f, points, sigma2, outliers) ==
    [engine |-> engine, fixed |-> f, points |-> points,
     sigma2 |-> sigma2, outliers |-> outliers]

\* the Probabilities of one Comparer::compute call: l, and p1, pt1, px and
\* correspondence as what the engine makes of args; iter is the iteration of
\* the loop that made the call
Probabilities(lv, args, it) == [l |-> lv, args |-> args, iter |-> it]
NoProbabilities == Probabilities(0, ComputeArgs("none", 0, 0, 0, 0), -1)

\* the hard correspondence vector an engine derives from its arguments
Correspondence(args) == [of |-> args]
NoCorrespondence == [of |-> ComputeArgs("none", 0, 0, 0, 0)]

\* a function f extended at key k with value v
Extend(f, k, v) ==
    [x \in (DOMAIN f) \cup {k} |-> IF x = k THEN v ELSE f[x]]

\* v is a value the function recorded in f may take at k
Allowed(f, k, v) == k \in DOMAIN f => f[k] = v

----------------------------------------------------------------------------
\* Nonrigid (runner.hpp 237-274)

\* a Result as Transform::compute leaves it: no correspondence, iterations
\* not yet set
NewResult(points, sigma2) ==
    [points |-> points, sigma2 |-> sigma2,
     correspondence |-> NoCorrespondence, iterations |-> -1]

\* Nonrigid::init that rebuilds G but keeps the W of the run before
NonrigidInit_KeepsW(f, m) == [g |-> Affinity(m, m), w |-> m_w]

\* Nonrigid::init: G from the moving cloud, W zero
NonrigidInit(f, m) == [g |-> Affinity(m, m), w |-> 0]

\* lambda / 2 * trace(W^T G W)
Penalty(w, g) == (m_lambda * (w * g * w)) \div 2

\* modify_probabilities that leaves L without the penalty
ModifyProbabilities_NoPenalty(p) == p

\* Nonrigid::modify_probabilities
ModifyProbabilities(p) == [p EXCEPT !.l = p.l + Penalty(m_w, m_g)]

\* the arguments of Nonrigid::compute that its output depends on
SolveArgs(f, m, p, sigma2, g) ==
    [fixed |-> f, moving |-> m, args |-> p.args, sigma2 |-> sigma2, g |-> g]

\* Nonrigid::compute's Result, given the W its solve returned and the
\* variance s computed from the new points
NonrigidCompute(m, w, s) == NewResult(m + m_g * w, s)

\* Nonrigid::denormalize
Denormalize(n, r) ==
    [r EXCEPT !.points = r.points * n.scale + n.fixed_mean]

----------------------------------------------------------------------------
\* History records

Step(name) == [step |-> name, iter |-> iter]
Call(args, when) == [args |-> args, when |-> when, iter |-> iter]
NoPrev == [valid |-> FALSE, fixed |-> 0, moving |-> 0, cfg |-> <<>>,
           result |-> NewResult(0, 0), log |-> <<>>]
NoEstimate(points, sigma2) == [msteps |-> 0, points |-> points, sigma2 |-> sigma2]

----------------------------------------------------------------------------
\* Runner(Transform transform) (runner.hpp 57-66)

Init ==
    /\ m_comparer = "direct"
    /\ m_correspondence = DEFAULT_CORRESPONDENCE
    /\ m_max_iterations = DEFAULT_MAX_ITERATIONS
    /\ m_normalize = DEFAULT_NORMALIZE
    /\ m_outliers = DEFAULT_OUTLIERS
    /\ m_sigma2 = DEFAULT_SIGMA2
    /\ m_tolerance = DEFAULT_TOLERANCE
    /\ m_g = 0
    /\ m_w = 0
    /\ pc = "idle"
    /\ fixed = 0
    /\ moving = 0
    /\ normalization = NoNormalization
    /\ fixed_ptr = 0
    /\ moving_ptr = 0
    /\ iter = 0
    /\ ntol = Num(0, 1)
    /\ l = 0
    /\ probabilities = NoProbabilities
    /\ result = NewResult(0, 0)
    /\ memoL = <<>>
    /\ memoM = <<>>
    /\ log = <<>>
    /\ calls = <<>>
    /\ cfg0 = config
    /\ last_m = NoEstimate(0, 0)
    /\ prev = NoPrev

\* the configuration a constructed Runner has
DefaultConfig ==
    <<"direct", DEFAULT_CORRESPONDENCE, DEFAULT_MAX_ITERATIONS,
      DEFAULT_NORMALIZE, DEFAULT_OUTLIERS, DEFAULT_SIGMA2, DEFAULT_TOLERANCE>>

\* the number of fields of configuration c that differ from the defaults
Changed(c) == Cardinality({i \in 1 .. Len(c) : c[i] # DefaultConfig[i]})

\* no run is in progress: the Runner is being configured, or a run returned
Configuring == pc \in {"idle", "done"}

\* what a setter leaves alone.  The locals of a run that returned are gone;
\* the kernels' recorded values and the previous run are only kept between
\* runs of one configuration
SetterFrame ==
    /\ Changed(config') <= MaxChanged
    /\ pc' = "idle"
    /\ fixed' = 0
    /\ moving' = 0
    /\ normalization' = NoNormalization
    /\ fixed_ptr' = 0
    /\ moving_ptr' = 0
    /\ iter' = 0
    /\ ntol' = Num(0, 1)
    /\ l' = 0
    /\ probabilities' = NoProbabilities
    /\ result' = NewResult(0, 0)
    /\ memoL' = <<>>
    /\ memoM' = <<>>
    /\ log' = <<>>
    /\ calls' = <<>>
    /\ cfg0' = config'
    /\ last_m' = NoEstimate(0, 0)
    /\ prev' = NoPrev
    /\ UNCHANGED transform

\* Runner::comparer (runner.hpp 69-72)
SetComparer(c) ==
    /\ Configuring
    /\ m_comparer' = c
    /\ UNCHANGED <<m_correspondence, m_max_iterations, m_normalize,
                   m_outliers, m_sigma2, m_tolerance>>
    /\ SetterFrame

\* Runner::correspondence (runner.hpp 78-81)
SetCorrespondence(b) ==
    /\ Configuring
    /\ m_correspondence' = b
    /\ UNCHANGED <<m_comparer, m_max_iterations, m_normalize,
                   m_outliers, m_sigma2, m_tolerance>>
    /\ SetterFrame

\* Runner::max_iterations (runner.hpp 87-90)
SetMaxIterations(n) ==
    /\ Configuring
    /\ m_max_iterations' = n
    /\ UNCHANGED <<m_comparer, m_correspondence, m_normalize,
                   m_outliers, m_sigma2, m_tolerance>>
    /\ SetterFrame

\* Runner::normalize (runner.hpp 96-99)
SetNormalize(b) ==
    /\ Configuring
    /\ m_normalize' = b
    /\ UNCHANGED <<m_comparer, m_correspondence, m_max_iterations,
                   m_outliers, m_sigma2, m_tolerance>>
    /\ SetterFrame

\* Runner::sigma2 (runner.hpp 107-110)
SetSigma2(s) ==
    /\ Configuring
    /\ m_sigma2' = s
    /\ UNCHANGED <<m_comparer, m_correspondence, m_max_iterations,
                   m_normalize, m_outliers, m_tolerance>>
    /\ SetterFrame

\* Runner::tolerance (runner.hpp 116-119)
SetTolerance(t) ==
    /\ Configuring
    /\ m_tolerance' = t
    /\ UNCHANGED <<m_comparer, m_correspondence, m_max_iterations,
                   m_normalize, m_outliers, m_sigma2>>
    /\ SetterFrame

\* Runner::outliers (runner.hpp 125-128)
SetOutliers(o) ==
    /\ Configuring
    /\ m_outliers' = o
    /\ UNCHANGED <<m_comparer, m_correspondence, m_max_iterations,
                   m_normalize, m_tolerance, m_sigma2>>
    /\ SetterFrame

----------------------------------------------------------------------------
\* Runner::run (runner.hpp 131-192)

\* the same clouds as the run that just returned
SameInputs(f, m) == pc = "done" /\ f = fixed /\ m = moving

\* run entry to the loop (runner.hpp 131-163): normalize, Transform::init,
\* iter, ntol, l, result.points, result.sigma2
RunEntry(f, m) ==
    /\ Configuring
    /\ m_max_iterations <= MaxIterations
    /\ LET n == IF m_normalize THEN Normalize(f, m) ELSE NoNormalization
           fp == IF m_normalize THEN n.fixed ELSE f
           mp == IF m_normalize THEN n.moving ELSE m
           t == NonrigidInit(fp, mp)
           s == IF m_sigma2 = 0 THEN DefaultSigma2(fp, mp) ELSE m_sigma2
       IN  /\ normalization' = n
           /\ fixed_ptr' = fp
           /\ moving_ptr' = mp
           /\ m_g' = t.g
           /\ m_w' = t.w
           /\ result' = NewResult(mp, s)
           /\ last_m' = NoEstimate(mp, s)
    /\ fixed' = f
    /\ moving' = m
    /\ iter' = 0
    /\ ntol' = Num(m_tolerance + 10 * TolScale, 1)
    /\ l' = 0
    /\ probabilities' = NoProbabilities
    /\ pc' = "loop"
    /\ log' = <<>>
    /\ calls' = <<>>
    /\ cfg0' = config
    /\ IF SameInputs(f, m)
       THEN /\ prev' = [valid |-> TRUE, fixed |-> fixed, moving |-> moving,
                        cfg |-> cfg0, result |-> result, log |-> log]
            /\ UNCHANGED memo
       ELSE /\ prev' = NoPrev
            /\ memoL' = <<>>
            /\ memoM' = <<>>
    /\ UNCHANGED config

\* the loop's condition without the iteration cap
LoopCond_NoCap ==
    /\ GreaterThanTol(ntol, m_tolerance)
    /\ result.sigma2 > SigmaFloor

\* the loop's condition without the variance floor
LoopCond_NoFloor ==
    /\ iter < m_max_iterations
    /\ GreaterThanTol(ntol, m_tolerance)

\* the loop's condition with the cap tested by <=
LoopCond_CapInclusive ==
    /\ iter <= m_max_iterations
    /\ GreaterThanTol(ntol, m_tolerance)
    /\ result.sigma2 > SigmaFloor

\* the loop's condition stopping one iteration short of the cap
LoopCond_CapShort ==
    /\ iter + 1 < m_max_iterations
    /\ GreaterThanTol(ntol, m_tolerance)
    /\ result.sigma2 > SigmaFloor

\* the loop's condition (runner.hpp 164-165)
LoopCond ==
    /\ iter < m_max_iterations
    /\ GreaterThanTol(ntol, m_tolerance)
    /\ result.sigma2 > SigmaFloor

\* the test of the loop's condition
LoopTest ==
    /\ pc = "loop"
    /\ pc' = IF LoopCond THEN "estep" ELSE "denormalize"
    /\ UNCHANGED <<config, transform, locals, memo, history>>

\* m_comparer->compute (runner.hpp 166-167)
EStep ==
    /\ pc = "estep"
    /\ LET args == ComputeArgs(m_comparer, fixed_ptr, result.points,
                               result.sigma2, m_outliers)
       IN  \E lv \in LValues :
             /\ Allowed(memoL, args, lv)
             /\ memoL' = Extend(memoL, args, lv)
             /\ probabilities' = Probabilities(lv, args, iter)
             /\ calls' = Append(calls, Call(args, "loop"))
    /\ log' = Append(log, Step("compute_probabilities"))
    /\ pc' = "modify"
    /\ UNCHANGED <<config, transform, fixed, moving, normalization, fixed_ptr,
                   moving_ptr, iter, ntol, l, result, memoM, cfg0, last_m, prev>>

\* m_transform.modify_probabilities (runner.hpp 168)
Modify ==
    /\ pc = "modify"
    /\ probabilities' = ModifyProbabilities(probabilities)
    /\ log' = Append(log, Step("modify_probabilities"))
    /\ pc' = "ntol"
    /\ UNCHANGED <<config, transform, fixed, moving, normalization, fixed_ptr,
                   moving_ptr, iter, ntol, l, result, memo, calls, cfg0,
                   last_m, prev>>

\* the relative change of L (runner.hpp 169)
RelativeChange(lnew, lprev) == AbsDiv(lnew - lprev, lnew)

Ntol ==
    /\ pc = "ntol"
    /\ ntol' = RelativeChange(probabilities.l, l)
    /\ log' = Append(log, Step("ntol"))
    /\ pc' = "lprev"
    /\ UNCHANGED <<config, transform, fixed, moving, normalization, fixed_ptr,
                   moving_ptr, iter, l, probabilities, result, memo, calls,
                   cfg0, last_m, prev>>

\* l = probabilities.l (runner.hpp 174)
LPrev ==
    /\ pc = "lprev"
    /\ l' = probabilities.l
    /\ log' = Append(log, Step("l"))
    /\ pc' = "mstep"
    /\ UNCHANGED <<config, transform, fixed, moving, normalization, fixed_ptr,
                   moving_ptr, iter, ntol, probabilities, result, memo, calls,
                   cfg0, last_m, prev>>

\* result = m_transform.compute (runner.hpp 175-176, 246-267)
MStep ==
    /\ pc = "mstep"
    /\ LET args == SolveArgs(fixed_ptr, moving_ptr, probabilities,
                             result.sigma2, m_g)
       IN  \E w \in WValues, s \in MStepSigma2 :
             /\ Allowed(memoM, args, <<w, s>>)
             /\ memoM' = Extend(memoM, args, <<w, s>>)
             /\ m_w' = w
             /\ result' = NonrigidCompute(moving_ptr, w, s)
             /\ last_m' = [msteps |-> last_m.msteps + 1,
                           points |-> result'.points, sigma2 |-> s]
    /\ log' = Append(log, [step |-> "compute", iter |-> probabilities.iter])
    /\ pc' = "inc"
    /\ UNCHANGED <<config, m_g, fixed, moving, normalization, fixed_ptr,
                   moving_ptr, iter, ntol, l, probabilities, memoL, calls,
                   cfg0, prev>>

\* ++iter (runner.hpp 177)
Inc ==
    /\ pc = "inc"
    /\ iter <= MaxIterations
    /\ iter' = iter + 1
    /\ probabilities' = NoProbabilities
    /\ log' = Append(log, Step("inc"))
    /\ pc' = "loop"
    /\ UNCHANGED <<config, transform, fixed, moving, normalization, fixed_ptr,
                   moving_ptr, ntol, l, result, memo, calls, cfg0, last_m,
                   prev>>

\* the denormalization after the loop (runner.hpp 179-181)
DenormalizeStep ==
    /\ pc = "denormalize"
    /\ result' = IF m_normalize THEN Denormalize(normalization, result)
                 ELSE result
    /\ log' = Append(log, Step("denormalize"))
    /\ pc' = "correspondence"
    /\ UNCHANGED <<config, transform, fixed, moving, normalization, fixed_ptr,
                   moving_ptr, iter, ntol, l, probabilities, memo, calls,
                   cfg0, last_m, prev>>

\* the correspondence pass made with the engine that drove the loop
CorrespondenceArgs_LoopEngine ==
    ComputeArgs(m_comparer, fixed, result.points, m_sigma2, m_outliers)

\* the arguments of the correspondence pass (runner.hpp 183-184)
CorrespondenceArgs ==
    ComputeArgs("direct", fixed, result.points, m_sigma2, m_outliers)

\* the correspondence pass (runner.hpp 182-186)
CorrespondenceStep ==
    /\ pc = "correspondence"
    /\ IF m_correspondence
       THEN /\ result' = [result EXCEPT
                            !.correspondence = Correspondence(CorrespondenceArgs)]
            /\ calls' = Append(calls, Call(CorrespondenceArgs, "after"))
       ELSE UNCHANGED <<result, calls>>
    /\ log' = Append(log, Step("correspondence"))
    /\ pc' = "finish"
    /\ UNCHANGED <<config, transform, fixed, moving, normalization, fixed_ptr,
                   moving_ptr, iter, ntol, l, probabilities, memo, cfg0,
                   last_m, prev>>

\* result.iterations = iter; return result (runner.hpp 187-191)
Finish ==
    /\ pc = "finish"
    /\ result' = [result EXCEPT !.iterations = iter]
    /\ pc' = "done"
    /\ UNCHANGED <<config, transform, fixed, moving, normalization, fixed_ptr,
                   moving_ptr, iter, ntol, l, probabilities, memo, history>>

\* the steps of a run in progress
RunStep ==
    \/ LoopTest
    \/ EStep
    \/ Modify
    \/ Ntol
    \/ LPrev
    \/ MStep
    \/ Inc
    \/ DenormalizeStep
    \/ CorrespondenceStep
    \/ Finish

Next ==
    \/ \E c \in Comparers : SetComparer(c)
    \/ \E b \in BOOLEAN : SetCorrespondence(b)
    \/ \E n \in 0 .. MaxIterations : SetMaxIterations(n)
    \/ \E b \in BOOLEAN : SetNormalize(b)
    \/ \E s \in Sigma2Values : SetSigma2(s)
    \/ \E t \in Tolerances : SetTolerance(t)
    \/ \E o \in OutlierWeights : SetOutliers(o)
    \/ \E c \in Clouds : RunEntry(c[1], c[2])
    \/ RunStep

Spec == Init /\ [][Next]_vars

\* a run in progress takes its next step: run is synchronous, single-threaded
\* code without suspension points
FairSpec == Spec /\ WF_vars(RunStep)

----------------------------------------------------------------------------
\* Properties

Running == pc \notin {"idle", "done"}
InLoopBody == pc \in {"estep", "modify", "ntol", "lprev", "mstep", "inc"}

\* the order of the steps of one iteration
LoopOrder == <<"compute_probabilities", "modify_probabilities", "ntol", "l",
               "compute", "inc">>
AfterLoop == {"denormalize", "correspondence"}

\* the engine calls of this run made by the loop, and those made after it
LoopCalls == {i \in 1 .. Len(calls) : calls[i].when = "loop"}
AfterCalls == {i \in 1 .. Len(calls) : calls[i].when = "after"}

\* the L the engine returned for the probabilities in hand, plus the penalty
\* of the W in hand
PenalizedL == memoL[probabilities.args] + Penalty(m_w, m_g)

\* the last M-step's points in the coordinates of the input
EstimateInInputFrame ==
    IF m_normalize
    THEN last_m.points * normalization.scale + normalization.fixed_mean
    ELSE last_m.points

\* C1: the steps of every iteration are logged in the order E-step, modify,
\* relative change, L_prev, M-step, increment, each with the number of its
\* iteration; the M-step's probabilities are those of the E-step of the same
\* iteration (the M-step is logged with the iteration that made its
\* probabilities), made from the current points and sigma2; and the L that the
\* relative change is computed from, and that becomes L_prev, is the engine's
\* L plus lambda/2 * trace(W^T G W).
C1_StepOrder ==
    /\ \A i \in 1 .. Len(log) :
         \/ /\ log[i].step \in AfterLoop
            /\ \A j \in i .. Len(log) : log[j].step \in AfterLoop
         \/ /\ log[i].step = LoopOrder[((i - 1) % 6) + 1]
            /\ log[i].iter = (i - 1) \div 6
    /\ pc \in {"modify", "ntol", "lprev", "mstep"} =>
         /\ probabilities.iter = iter
         /\ probabilities.args.points = result.points
         /\ probabilities.args.sigma2 = result.sigma2
    /\ pc \in {"ntol", "lprev", "mstep"} => probabilities.l = PenalizedL
    /\ pc = "lprev" => ntol = RelativeChange(PenalizedL, l)
    /\ pc = "mstep" => l = PenalizedL

\* the M-step of the second iteration is about to run with a nonzero penalty
\* in L
C1_Witness ==
    /\ pc = "mstep"
    /\ iter = 1
    /\ Penalty(m_w, m_g) > 0

\* C2: a run in progress reaches its return, and the iteration count it
\* returns is at most the cap.
C2_Terminates ==
    Running ~> (pc = "done" /\ result.iterations <= m_max_iterations)

\* a run returned at a positive cap with the tolerance not met and sigma2
\* above the floor
C2_Witness ==
    /\ pc = "done"
    /\ result.iterations = m_max_iterations
    /\ m_max_iterations = MaxIterations
    /\ GreaterThanTol(ntol, m_tolerance)
    /\ result.sigma2 > SigmaFloor

\* C3: an iteration starts only with iter below the cap, the last relative
\* change above the tolerance and sigma2 above the floor, and iter stays below
\* the cap and sigma2 above the floor up to the M-step; the run returns the
\* points (in the coordinates of the input) and the sigma2 of the last M-step
\* made, after as many M-steps as it counts.
C3_IterationGuard ==
    /\ pc = "estep" =>
         /\ iter < m_max_iterations
         /\ GreaterThanTol(ntol, m_tolerance)
         /\ result.sigma2 > SigmaFloor
    /\ pc \in {"modify", "ntol", "lprev", "mstep"} =>
         /\ iter < m_max_iterations
         /\ result.sigma2 > SigmaFloor
    /\ pc = "done" =>
         /\ result.points = EstimateInInputFrame
         /\ result.sigma2 = last_m.sigma2
         /\ result.iterations = last_m.msteps

\* a run returned below the cap because an M-step brought sigma2 to the floor
C3_Witness ==
    /\ pc = "done"
    /\ result.sigma2 <= SigmaFloor
    /\ result.iterations > 0
    /\ result.iterations < m_max_iterations
    /\ GreaterThanTol(ntol, m_tolerance)

\* the variance a run starts with
InitialSigma2 ==
    IF m_sigma2 # 0 THEN m_sigma2
    ELSE IF m_normalize
         THEN DefaultSigma2(Normalize(fixed, moving).fixed,
                            Normalize(fixed, moving).moving)
         ELSE DefaultSigma2(fixed, moving)

\* the moving cloud a run with no iteration returns
UnmovedPoints ==
    IF m_normalize
    THEN Denormalize(Normalize(fixed, moving),
                     NewResult(Normalize(fixed, moving).moving, 0)).points
    ELSE moving

\* C4: in a run with max_iterations = 0 the loop makes no engine call and no
\* M-step and no step of the loop body is reached, and the run returns
\* iterations = 0, the initial sigma2 and the moving cloud (normalized and
\* denormalized when normalization is enabled).
C4_ZeroIterations ==
    (pc # "idle" /\ m_max_iterations = 0) =>
        /\ ~InLoopBody
        /\ LoopCalls = {}
        /\ last_m.msteps = 0
        /\ pc = "done" =>
             /\ result.iterations = 0
             /\ result.sigma2 = InitialSigma2
             /\ result.points = UnmovedPoints

\* a run with max_iterations = 0 returned, with normalization, a sigma2 and a
\* tolerance that would let the loop run
C4_Witness ==
    /\ pc = "done"
    /\ m_max_iterations = 0
    /\ m_normalize
    /\ result.sigma2 > SigmaFloor
    /\ GreaterThanTol(ntol, m_tolerance)
    /\ result.points # moving

\* C5 as stated: iterations is the number of M-steps; it equals the cap
\* exactly when the cap was reached without meeting the tolerance, and is
\* below the cap exactly when the tolerance was met or sigma2 reached the
\* floor.
C5_AsStated ==
    pc = "done" =>
        /\ result.iterations = last_m.msteps
        /\ (result.iterations = m_max_iterations) <=>
               (iter = m_max_iterations /\ GreaterThanTol(ntol, m_tolerance))
        /\ (result.iterations < m_max_iterations) <=>
               (~GreaterThanTol(ntol, m_tolerance) \/ result.sigma2 <= SigmaFloor)

\* C5: iterations is the number of M-steps made, at most the cap, and it is
\* below the cap only when the loop stopped because the last relative change
\* was not above the tolerance or sigma2 was not above the floor.
C5_IterationCount ==
    pc = "done" =>
        /\ result.iterations = last_m.msteps
        /\ result.iterations <= m_max_iterations
        /\ result.iterations < m_max_iterations =>
               (~GreaterThanTol(ntol, m_tolerance) \/ result.sigma2 <= SigmaFloor)

\* a run returned with iterations at a positive cap although its last
\* iteration met the tolerance
C5_Witness ==
    /\ pc = "done"
    /\ m_max_iterations > 0
    /\ result.iterations = m_max_iterations
    /\ ntol.kind = "num"
    /\ ~GreaterThanTol(ntol, m_tolerance)

\* C6: no engine call is made after the loop before the correspondence step;
\* once that step is passed there is one such call if correspondence is
\* requested and none otherwise; that call is the last call of the run, is
\* made after the denormalization with the direct engine on the input fixed
\* cloud and the returned points, and its correspondence is in the result;
\* the returned points and sigma2 are those of the last M-step.
C6_CorrespondencePass ==
    /\ (Running /\ pc # "finish") => AfterCalls = {}
    /\ pc \in {"finish", "done"} =>
         /\ Cardinality(AfterCalls) = (IF m_correspondence THEN 1 ELSE 0)
         /\ ~m_correspondence => result.correspondence = NoCorrespondence
         /\ \A i \in AfterCalls :
              /\ i = Len(calls)
              /\ calls[i].args.engine = "direct"
              /\ calls[i].args.fixed = fixed
              /\ calls[i].args.points = result.points
              /\ result.correspondence = Correspondence(calls[i].args)
              /\ log[Len(log)].step = "correspondence"
              /\ log[Len(log) - 1].step = "denormalize"
         /\ result.points = EstimateInInputFrame
         /\ result.sigma2 = last_m.sigma2

\* a normalized run driven by another engine returned with a correspondence
C6_Witness ==
    /\ pc = "done"
    /\ m_correspondence
    /\ m_comparer # "direct"
    /\ m_normalize
    /\ result.iterations > 0
    /\ fixed_ptr # fixed

\* C7: a run leaves the configuration as it was at its entry; a run is
\* entered with iter 0, L_prev 0, W zero and no step made; and a run on the
\* same instance with the configuration and clouds of the run before makes
\* the same steps and returns the same result.
C7_Reuse ==
    /\ pc # "idle" => config = cfg0
    /\ (pc = "loop" /\ log = <<>>) =>
         /\ iter = 0
         /\ l = 0
         /\ m_w = 0
         /\ m_g = Affinity(moving_ptr, moving_ptr)
         /\ result.sigma2 = InitialSigma2
         /\ last_m.msteps = 0
    /\ (pc = "done" /\ prev.valid) =>
         /\ prev.cfg = cfg0
         /\ prev.fixed = fixed
         /\ prev.moving = moving
         /\ result = prev.result
         /\ log = prev.log

\* a second run returned after a first that left a nonzero W behind
C7_Witness ==
    /\ pc = "done"
    /\ prev.valid
    /\ prev.result.iterations > 0
    /\ m_w # 0

\* a malformed configuration: tolerance not positive, or outlier weight not
\* in [0, 1)
Malformed == m_tolerance <= 0 \/ m_outliers < 0 \/ m_outliers >= 10

\* C8: with a malformed configuration no E-step and no M-step is made.
C8_MalformedRejected ==
    (pc # "idle" /\ Malformed) => (LoopCalls = {} /\ last_m.msteps = 0)

\* C9: the relative change is never formed with a divisor L = 0, so it is
\* always a number.
C9_DivisorNonzero ==
    /\ pc = "lprev" => probabilities.l # 0
    /\ ntol.kind = "num"

\* C10: every engine call of a run is given a sigma2 above the floor.
C10_CallsAboveFloor ==
    \A i \in 1 .. Len(calls) : calls[i].args.sigma2 > SigmaFloor
====
